---- MODULE Spec2Model ----
(***************************************************************************)
(* BlogPostGenerator (src/src/bloger_workflow.py): the workflow that       *)
(* answers a topic from its post cache, or searches, scrapes and writes,   *)
(* caching each stage's result in session_state.                           *)
(*                                                                         *)
(* Python values are records tagged with their type in the field "kind",   *)
(* so that None, str, dict, SearchResults and ScrapedArticle values can be *)
(* compared with each other as Python compares them.                       *)
(***************************************************************************)
EXTENDS Naturals, Sequences, FiniteSets, TLC

VARIABLES
    session_state,        \* self.session_state: the three caches, by topic
    writer_run_response,  \* self.writer.run_response.content
    run,                  \* per call of run(): its arguments, locals and position
    started               \* how many calls of run() have begun

vars == <<session_state, writer_run_response, run, started>>

-----------------------------------------------------------------------------
(* Bounds of the model *)

MaxRuns == 2        \* calls of run() in one behaviour
MaxArticles == 2    \* longest candidate list the searcher returns
MaxChunks == 1      \* most chunks the writer streams in one call

Topics == {"Test Topic", "Empty Topic"}
Urls == {"u1", "u2"}
Chunks == {"a"}
Runs == {1, 2}

-----------------------------------------------------------------------------
(* Python values *)

None == [kind |-> "None"]
Str(s) == [kind |-> "str", text |-> s]
EmptyDict == [kind |-> "dict", items |-> <<>>]

\* bool(v): the truth value Python's `if v:` and `v and ...` test
bool(v) ==
    CASE v.kind = "None" -> FALSE
      [] v.kind = "str" -> v.text # ""
      [] v.kind = "dict" -> Len(v.items) > 0
      [] v.kind = "list" -> Len(v.items) > 0
      [] OTHER -> TRUE

\* a dict is the sequence of its (key, value) pairs in insertion order
dict_keys(d) == {d.items[i].key : i \in 1..Len(d.items)}
dict_contains(d, k) == k \in dict_keys(d)
dict_get(d, k) ==
    IF dict_contains(d, k)
    THEN (CHOOSE p \in {d.items[i] : i \in 1..Len(d.items)} : p.key = k).value
    ELSE None
dict_set(d, k, v) ==
    IF dict_contains(d, k)
    THEN [d EXCEPT !.items = [i \in 1..Len(d.items) |->
              IF d.items[i].key = k THEN [key |-> k, value |-> v] ELSE d.items[i]]]
    ELSE [d EXCEPT !.items = Append(d.items, [key |-> k, value |-> v])]
dict_values(d) == [i \in 1..Len(d.items) |-> d.items[i].value]

List(items) == [kind |-> "list", items |-> items]
Dict(items) == [kind |-> "dict", items |-> items]

\* len(v) raises for a value that has no length
has_len(v) == v.kind \in {"str", "dict", "list"}

\* k in c, for the containers scrape_articles can hold: a key of a dict; never
\* a field of a model instance, which iterates as (name, value) pairs
contains(c, k) == IF c.kind = "dict" THEN dict_contains(c, k) ELSE FALSE

\* the result of a call that may raise
Returned(v) == [raised |-> FALSE, value |-> v]
Raised == [raised |-> TRUE, value |-> None]

-----------------------------------------------------------------------------
(* src.models: SearchResults and ScrapedArticle *)

RECURSIVE SeqsUpTo(_, _)
SeqsUpTo(S, n) ==
    IF n = 0 THEN {<<>>}
    ELSE LET shorter == SeqsUpTo(S, n - 1)
         IN shorter \cup {Append(s, x) : s \in {q \in shorter : Len(q) = n - 1}, x \in S}

NewsArticle == [kind : {"NewsArticle"}, url : Urls]
SearchResults == [kind : {"SearchResults"}, articles : SeqsUpTo(NewsArticle, MaxArticles)]
ScrapedArticle ==
    [kind : {"ScrapedArticle"}, title : {"title"}, url : Urls, content : {"text"}]

\* v.model_dump(): the article as a dict of its fields
model_dump(v) ==
    [kind |-> "dict",
     items |-> <<[key |-> "title", value |-> Str(v.title)],
                 [key |-> "url", value |-> Str(v.url)],
                 [key |-> "content", value |-> Str(v.content)]>>]

\* the fields a ScrapedArticle cannot be built without
ScrapedArticleRequired == {"title", "url"}

\* NewsArticle.model_validate(v): an instance validates as itself, and a dict
\* when it holds a url
NewsArticle_model_validate(v) ==
    IF v.kind = "NewsArticle" THEN Returned(v)
    ELSE IF v.kind = "dict" /\ dict_get(v, "url").kind = "str"
         THEN Returned([kind |-> "NewsArticle", url |-> dict_get(v, "url").text])
         ELSE Raised

\* SearchResults.model_validate(v): an instance validates as itself, and a
\* dict when it holds a list of articles that validate
SearchResults_model_validate(v) ==
    IF v.kind = "SearchResults" THEN Returned(v)
    ELSE IF /\ v.kind = "dict"
            /\ dict_get(v, "articles").kind = "list"
            /\ \A i \in 1..Len(dict_get(v, "articles").items) :
                  ~NewsArticle_model_validate(dict_get(v, "articles").items[i]).raised
         THEN Returned([kind |-> "SearchResults",
                        articles |-> [i \in 1..Len(dict_get(v, "articles").items) |->
                            NewsArticle_model_validate(dict_get(v, "articles").items[i]).value]])
         ELSE Raised

\* ScrapedArticle.model_validate(v): an instance validates as itself; a dict
\* validates when it holds the required fields as strings, and raises otherwise
ScrapedArticle_model_validate(v) ==
    IF v.kind = "ScrapedArticle" THEN Returned(v)
    ELSE IF /\ v.kind = "dict"
            /\ ScrapedArticleRequired \subseteq dict_keys(v)
            /\ \A f \in ScrapedArticleRequired : dict_get(v, f).kind = "str"
         THEN Returned([kind |-> "ScrapedArticle",
                        title |-> dict_get(v, "title").text,
                        url |-> dict_get(v, "url").text,
                        content |-> "text"])
         ELSE Raised

-----------------------------------------------------------------------------
(* The cache accessors *)

get_cached_blog_post(ss, topic) == ss.blog_posts[topic]

add_blog_post_to_cache(ss, topic, blog_post) ==
    [ss EXCEPT !.blog_posts[topic] = blog_post]

get_cached_search_results(ss, topic) ==
    LET search_results == ss.search_results[topic]
    IN IF bool(search_results) /\ search_results.kind = "dict"
       THEN SearchResults_model_validate(search_results)
       ELSE Returned(search_results)

\* the search results saved only where the topic has none yet
add_search_results_if_absent(ss, topic, search_results) ==
    IF ss.search_results[topic] = None
    THEN [ss EXCEPT !.search_results[topic] = search_results]
    ELSE ss

\* the search results saved under the key of the scraped articles
add_search_results_to_wrong_cache(ss, topic, search_results) ==
    [ss EXCEPT !.scraped_articles[topic] = search_results]

add_search_results_to_cache(ss, topic, search_results) ==
    [ss EXCEPT !.search_results[topic] = search_results]

get_cached_scraped_articles(ss, topic) ==
    LET scraped_articles == ss.scraped_articles[topic]
    IN IF bool(scraped_articles) /\ scraped_articles.kind = "dict"
       THEN ScrapedArticle_model_validate(scraped_articles)
       ELSE Returned(scraped_articles)

\* a set without articles not saved
add_scraped_articles_unless_empty(ss, topic, scraped_articles) ==
    IF bool(scraped_articles)
    THEN [ss EXCEPT !.scraped_articles[topic] = scraped_articles]
    ELSE ss

add_scraped_articles_to_cache(ss, topic, scraped_articles) ==
    [ss EXCEPT !.scraped_articles[topic] = scraped_articles]

-----------------------------------------------------------------------------
(* What the collaborators may answer *)

RunResponse(content) == [kind |-> "RunResponse", content |-> content]
Raise == [kind |-> "raise"]

\* an exception, no response, no content, content of another type, or a result
SearcherResponses ==
    {Raise, None, RunResponse(None), RunResponse(Str("text"))}
        \cup {RunResponse(c) : c \in SearchResults}

ScraperResponses ==
    {Raise, None, RunResponse(None), RunResponse(Str("text"))}
        \cup {RunResponse(c) : c \in ScrapedArticle}

-----------------------------------------------------------------------------
(* run(): a call is the record l of its arguments and locals; s = [ss, l]    *)
(* pairs it with session_state, and each operator below is the code from one *)
(* point of run() up to the next call of a collaborator.                     *)

\* a loop that allows one attempt too many
num_attempts_one_more == 3 + 1

num_attempts == 3

WorkflowCompletedEvent(content) == [event |-> "WorkflowCompleted", content |-> content]
RunResponseContent(chunk) == [event |-> "RunResponseContent", content |-> Str(chunk)]

not_found_message(topic) ==
    "Sorry, could not find any articles on the topic: " \o topic

NoRun ==
    [pc |-> "idle", outcome |-> "none", topic |-> "",
     use_search_cache |-> FALSE, use_scrape_cache |-> FALSE,
     use_cached_report |-> FALSE,
     attempt |-> 0, search_results |-> None, idx |-> 0,
     scraped_articles |-> EmptyDict, writer_input |-> None, chunks |-> 0,
     yielded |-> <<>>, calls |-> <<>>, entry_state |-> None]

\* the log of the collaborator calls of a run: who was called, with what, and
\* the result taken from the answer (None when the answer was not usable)
called(s, agent, arg, result) ==
    [s EXCEPT !.l.calls = Append(@, [agent |-> agent, arg |-> arg, result |-> result])]

\* run(), from the return of scrape_articles: building the writer's input
\* raises when what scrape_articles returned has no values()
run_after_scrape(s) ==
    IF s.l.scraped_articles.kind = "dict"
    THEN [s EXCEPT !.l.pc = "write"]
    ELSE [s EXCEPT !.l.pc = "failed", !.l.outcome = "writer_input_error"]

\* scrape_articles, the for loop from candidate i: skip the URLs already in
\* scraped_articles, stop before the next call of the scraper, and after the
\* last candidate save the set and return to run(), which goes on to the writer
RECURSIVE scrape_loop(_, _)
scrape_loop(s, i) ==
    LET articles == s.l.search_results.articles
    IN IF i > Len(articles)
       THEN run_after_scrape(
                [ss |-> add_scraped_articles_to_cache(s.ss, s.l.topic, s.l.scraped_articles),
                 l |-> [s.l EXCEPT !.idx = i]])
       ELSE IF contains(s.l.scraped_articles, articles[i].url)
            THEN scrape_loop(s, i + 1)
            ELSE [s EXCEPT !.l.pc = "scrape", !.l.idx = i]

\* scrape_articles reading the cache under the flag of the search cache
scrape_articles_wrong_flag(s) ==
    LET from_cache == get_cached_scraped_articles(s.ss, s.l.topic)
    IN IF s.l.use_search_cache /\ ~from_cache.raised /\ from_cache.value # None
       THEN IF has_len(from_cache.value)
            THEN run_after_scrape([s EXCEPT !.l.scraped_articles = from_cache.value])
            ELSE scrape_loop([s EXCEPT !.l.scraped_articles = from_cache.value], 1)
       ELSE scrape_loop([s EXCEPT !.l.scraped_articles = EmptyDict], 1)

\* scrape_articles, from its entry: with use_scrape_cache set, what reading
\* the cache gives is returned unless the read raises or gives None; a value
\* without a length is assigned to scraped_articles before len() raises, and
\* the loop goes on with it
scrape_articles(s) ==
    LET from_cache == get_cached_scraped_articles(s.ss, s.l.topic)
    IN IF s.l.use_scrape_cache /\ ~from_cache.raised /\ from_cache.value # None
       THEN IF has_len(from_cache.value)
            THEN run_after_scrape([s EXCEPT !.l.scraped_articles = from_cache.value])
            ELSE scrape_loop([s EXCEPT !.l.scraped_articles = from_cache.value], 1)
       ELSE scrape_loop([s EXCEPT !.l.scraped_articles = EmptyDict], 1)

\* the article stored under the URL that was asked for
scrape_response_keyed_by_request(s, resp) ==
    LET url == s.l.search_results.articles[s.l.idx].url
        valid == resp.kind = "RunResponse" /\ resp.content.kind = "ScrapedArticle"
        c == called(s, "article_scraper", url,
                    IF valid THEN resp.content ELSE IF resp.kind = "raise" THEN Raise ELSE None)
    IN IF resp.kind = "raise"
       THEN [c EXCEPT !.l.pc = "failed", !.l.outcome = "scrape_error"]
       ELSE IF valid
            THEN IF s.l.scraped_articles.kind = "dict"
                 THEN scrape_loop([c EXCEPT !.l.scraped_articles =
                                       dict_set(@, url, resp.content)],
                                  s.l.idx + 1)
                 ELSE [c EXCEPT !.l.pc = "failed", !.l.outcome = "set_item_error"]
            ELSE scrape_loop(c, s.l.idx + 1)

\* scrape_articles returning after the first article it gets
scrape_response_stop_at_first(s, resp) ==
    LET url == s.l.search_results.articles[s.l.idx].url
        valid == resp.kind = "RunResponse" /\ resp.content.kind = "ScrapedArticle"
        c == called(s, "article_scraper", url,
                    IF valid THEN resp.content ELSE IF resp.kind = "raise" THEN Raise ELSE None)
    IN IF resp.kind = "raise"
       THEN [c EXCEPT !.l.pc = "failed", !.l.outcome = "scrape_error"]
       ELSE IF valid
            THEN IF s.l.scraped_articles.kind = "dict"
                 THEN LET set == dict_set(s.l.scraped_articles, resp.content.url, resp.content)
                      IN run_after_scrape(
                             [c EXCEPT !.l.scraped_articles = set,
                                       !.ss = add_scraped_articles_to_cache(@, s.l.topic, set)])
                 ELSE [c EXCEPT !.l.pc = "failed", !.l.outcome = "set_item_error"]
            ELSE scrape_loop(c, s.l.idx + 1)

\* the scraper answered resp for the candidate at idx; storing the article
\* raises when scraped_articles is no dict
scrape_response(s, resp) ==
    LET url == s.l.search_results.articles[s.l.idx].url
        valid == resp.kind = "RunResponse" /\ resp.content.kind = "ScrapedArticle"
        c == called(s, "article_scraper", url,
                    IF valid THEN resp.content ELSE IF resp.kind = "raise" THEN Raise ELSE None)
    IN IF resp.kind = "raise"
       THEN [c EXCEPT !.l.pc = "failed", !.l.outcome = "scrape_error"]
       ELSE IF valid
            THEN IF s.l.scraped_articles.kind = "dict"
                 THEN scrape_loop([c EXCEPT !.l.scraped_articles =
                                       dict_set(@, resp.content.url, resp.content)],
                                  s.l.idx + 1)
                 ELSE [c EXCEPT !.l.pc = "failed", !.l.outcome = "set_item_error"]
            ELSE scrape_loop(c, s.l.idx + 1)

\* run() ending the workflow only when there is no result at all
run_after_search_none_only(s, search_results) ==
    LET s1 == [s EXCEPT !.l.search_results = search_results]
    IN IF search_results = None
       THEN [s1 EXCEPT !.l.yielded = Append(@, WorkflowCompletedEvent(
                                         Str(not_found_message(s.l.topic)))),
                       !.l.pc = "done", !.l.outcome = "not_found"]
       ELSE scrape_articles(s1)

\* run(), from the return of get_search_results
run_after_search(s, search_results) ==
    LET s1 == [s EXCEPT !.l.search_results = search_results]
    IN IF search_results = None \/ Len(search_results.articles) = 0
       THEN [s1 EXCEPT !.l.yielded = Append(@, WorkflowCompletedEvent(
                                         Str(not_found_message(s.l.topic)))),
                       !.l.pc = "done", !.l.outcome = "not_found"]
       ELSE scrape_articles(s1)

\* get_search_results taking an empty cached result for no result
get_search_results_unless_empty(s) ==
    LET from_cache == get_cached_search_results(s.ss, s.l.topic)
        validated == IF from_cache.raised \/ from_cache.value = None
                     THEN Raised
                     ELSE SearchResults_model_validate(from_cache.value)
    IN IF s.l.use_search_cache /\ ~validated.raised /\ Len(validated.value.articles) > 0
       THEN run_after_search(s, validated.value)
       ELSE [s EXCEPT !.l.pc = "search", !.l.attempt = 0]

\* get_search_results, from its entry: the cached result when use_search_cache
\* is set and reading and validating it neither raises nor gives None
get_search_results(s) ==
    LET from_cache == get_cached_search_results(s.ss, s.l.topic)
        validated == IF from_cache.raised \/ from_cache.value = None
                     THEN Raised
                     ELSE SearchResults_model_validate(from_cache.value)
    IN IF s.l.use_search_cache /\ ~validated.raised
       THEN run_after_search(s, validated.value)
       ELSE [s EXCEPT !.l.pc = "search", !.l.attempt = 0]

\* a result without candidates taken for a failed attempt
search_response_retry_on_empty(s, resp) ==
    LET valid == /\ resp.kind = "RunResponse" /\ resp.content.kind = "SearchResults"
                 /\ Len(resp.content.articles) > 0
        c == called(s, "searcher", s.l.topic,
                    IF resp.kind = "RunResponse" /\ resp.content.kind = "SearchResults"
                    THEN resp.content ELSE None)
    IN IF valid
       THEN run_after_search(
                [c EXCEPT !.ss = add_search_results_to_cache(@, s.l.topic, resp.content)],
                resp.content)
       ELSE IF s.l.attempt + 1 < num_attempts
            THEN [c EXCEPT !.l.attempt = @ + 1]
            ELSE run_after_search([c EXCEPT !.l.attempt = @ + 1], None)

\* get_search_results trying again for as long as the searcher fails
search_response_retry_forever(s, resp) ==
    LET valid == resp.kind = "RunResponse" /\ resp.content.kind = "SearchResults"
        c == called(s, "searcher", s.l.topic, IF valid THEN resp.content ELSE None)
    IN IF valid
       THEN run_after_search(
                [c EXCEPT !.ss = add_search_results_to_cache(@, s.l.topic, resp.content)],
                resp.content)
       ELSE [c EXCEPT !.l.attempt = @ + 1]

\* an exception of the searcher leaving get_search_results
search_response_raise_propagates(s, resp) ==
    LET valid == resp.kind = "RunResponse" /\ resp.content.kind = "SearchResults"
        c == called(s, "searcher", s.l.topic, IF valid THEN resp.content ELSE None)
    IN IF resp.kind = "raise"
       THEN [c EXCEPT !.l.pc = "failed", !.l.outcome = "search_error"]
       ELSE IF valid
            THEN run_after_search(
                     [c EXCEPT !.ss = add_search_results_to_cache(@, s.l.topic, resp.content)],
                     resp.content)
            ELSE IF s.l.attempt + 1 < num_attempts
                 THEN [c EXCEPT !.l.attempt = @ + 1]
                 ELSE run_after_search([c EXCEPT !.l.attempt = @ + 1], None)

\* the searcher answered resp on the attempt numbered attempt
search_response(s, resp) ==
    LET valid == resp.kind = "RunResponse" /\ resp.content.kind = "SearchResults"
        c == called(s, "searcher", s.l.topic, IF valid THEN resp.content ELSE None)
    IN IF valid
       THEN run_after_search(
                [c EXCEPT !.ss = add_search_results_to_cache(@, s.l.topic, resp.content)],
                resp.content)
       ELSE IF s.l.attempt + 1 < num_attempts
            THEN [c EXCEPT !.l.attempt = @ + 1]
            ELSE run_after_search([c EXCEPT !.l.attempt = @ + 1], None)

\* run() reading the post cache under the flag of the search cache
run_entry_wrong_flag(s) ==
    LET cached_blog_post == get_cached_blog_post(s.ss, s.l.topic)
    IN IF s.l.use_search_cache /\ bool(cached_blog_post)
       THEN [s EXCEPT !.l.yielded = Append(@, WorkflowCompletedEvent(cached_blog_post)),
                      !.l.pc = "done", !.l.outcome = "cached"]
       ELSE get_search_results(s)

\* run(), from its entry
run_entry(s) ==
    LET cached_blog_post == get_cached_blog_post(s.ss, s.l.topic)
    IN IF s.l.use_cached_report /\ bool(cached_blog_post)
       THEN [s EXCEPT !.l.yielded = Append(@, WorkflowCompletedEvent(cached_blog_post)),
                      !.l.pc = "done", !.l.outcome = "cached"]
       ELSE get_search_results(s)

\* the input run() builds for the writer
writer_input(topic, scraped_articles) ==
    LET values == dict_values(scraped_articles)
    IN [topic |-> topic,
        articles |-> [i \in 1..Len(values) |-> model_dump(values[i])]]

-----------------------------------------------------------------------------
(* The state machine *)

Init ==
    /\ session_state = [blog_posts |-> [t \in Topics |-> None],
                        search_results |-> [t \in Topics |-> None],
                        scraped_articles |-> [t \in Topics |-> None]]
    /\ writer_run_response = None
    /\ run = [r \in Runs |-> NoRun]
    /\ started = 0

Active(r) == run[r].pc \in {"search", "scrape", "write", "stream"}

step(r, s) ==
    /\ session_state' = s.ss
    /\ run' = [run EXCEPT ![r] = s.l]

\* run(topic, use_search_cache, use_scrape_cache, use_cached_report) up to its
\* first call of a collaborator, or to its end
call_run(r, topic, use_search_cache, use_scrape_cache, use_cached_report) ==
    step(r, run_entry([ss |-> session_state,
                       l |-> [NoRun EXCEPT !.topic = topic,
                                           !.use_search_cache = use_search_cache,
                                           !.use_scrape_cache = use_scrape_cache,
                                           !.use_cached_report = use_cached_report,
                                           !.entry_state = session_state]]))

\* a caller iterates run(topic, use_search_cache, use_scrape_cache, use_cached_report)
StartRun(r) ==
    /\ ~Active(r)
    /\ started < MaxRuns
    /\ started' = started + 1
    /\ \E topic \in Topics, usc, uscr, ucr \in BOOLEAN : call_run(r, topic, usc, uscr, ucr)
    /\ UNCHANGED writer_run_response

\* a request to /workflow/run: run_agent calls run() on the query's topic with
\* the three caches in use
run_agent(r) ==
    /\ ~Active(r)
    /\ started < MaxRuns
    /\ started' = started + 1
    /\ \E topic \in Topics : call_run(r, topic, TRUE, TRUE, TRUE)
    /\ UNCHANGED writer_run_response

\* self.searcher.run(topic) answering one of responses, and the rest of the attempt
SearchAttemptOf(r, responses) ==
    /\ run[r].pc = "search"
    /\ \E resp \in responses :
          step(r, search_response([ss |-> session_state, l |-> run[r]], resp))
    /\ UNCHANGED <<writer_run_response, started>>

SearchAttempt(r) == SearchAttemptOf(r, SearcherResponses)

\* self.article_scraper.run(article.url) answering one of responses, and the
\* rest of the iteration
ScrapeArticleOf(r, responses) ==
    /\ run[r].pc = "scrape"
    /\ \E resp \in responses :
          step(r, scrape_response([ss |-> session_state, l |-> run[r]], resp))
    /\ UNCHANGED <<writer_run_response, started>>

ScrapeArticle(r) == ScrapeArticleOf(r, ScraperResponses)

\* self.writer.run(json.dumps(writer_input), stream=True)
WriterRun(r) ==
    /\ run[r].pc = "write"
    /\ LET input == writer_input(run[r].topic, run[r].scraped_articles)
       IN step(r, called([ss |-> session_state,
                          l |-> [run[r] EXCEPT !.pc = "stream", !.writer_input = input]],
                         "writer", input, None))
    /\ writer_run_response' = Str("")
    /\ UNCHANGED started

\* the writer streams a chunk, which run() yields as it is
WriterChunk(r) ==
    /\ run[r].pc = "stream"
    /\ run[r].chunks < MaxChunks
    /\ \E chunk \in Chunks :
          /\ writer_run_response' = Str(writer_run_response.text \o chunk)
          /\ run' = [run EXCEPT ![r].chunks = @ + 1,
                                ![r].yielded = Append(@, RunResponseContent(chunk))]
    /\ UNCHANGED <<session_state, started>>

\* run() saving the post only when the post cache is in use
WriterDone_gated(r) ==
    /\ run[r].pc = "stream"
    /\ step(r, [ss |-> IF run[r].use_cached_report
                       THEN add_blog_post_to_cache(session_state, run[r].topic,
                                                   writer_run_response)
                       ELSE session_state,
                l |-> [run[r] EXCEPT !.pc = "done", !.outcome = "post"]])
    /\ UNCHANGED <<writer_run_response, started>>

\* the writer's stream ends, and run() saves the post
WriterDone(r) ==
    /\ run[r].pc = "stream"
    /\ step(r, [ss |-> add_blog_post_to_cache(session_state, run[r].topic,
                                              writer_run_response),
                l |-> [run[r] EXCEPT !.pc = "done", !.outcome = "post"]])
    /\ UNCHANGED <<writer_run_response, started>>

\* run() saving what the writer had streamed when it raised
WriterRaises_saves_partial(r) ==
    /\ run[r].pc = "stream"
    /\ step(r, [ss |-> add_blog_post_to_cache(session_state, run[r].topic,
                                              writer_run_response),
                l |-> [run[r] EXCEPT !.pc = "failed", !.outcome = "write_error"]])
    /\ UNCHANGED <<writer_run_response, started>>

\* the writer raises, and the exception leaves run()
WriterRaises(r) ==
    /\ run[r].pc = "stream"
    /\ run' = [run EXCEPT ![r].pc = "failed", ![r].outcome = "write_error"]
    /\ UNCHANGED <<session_state, writer_run_response, started>>

\* the calls of run() follow one another
Sequential == {1}

Next ==
    \E r \in Sequential :
        \/ StartRun(r)
        \/ SearchAttempt(r)
        \/ ScrapeArticle(r)
        \/ WriterRun(r)
        \/ WriterChunk(r)
        \/ WriterDone(r)
        \/ WriterRaises(r)

Spec == Init /\ [][Next]_vars

\* The requests of main.py: run_agent is a plain function, which the server
\* runs on a thread of its pool, so that calls of run() on the one workflow
\* interleave at their calls of the collaborators. The collaborators answer
\* with a failure or a result, and the searcher with one candidate.
ConcurrentSearcherResponses ==
    {None} \cup {RunResponse(c) : c \in {sr \in SearchResults : Len(sr.articles) = 1}}

ConcurrentScraperResponses == {None} \cup {RunResponse(c) : c \in ScrapedArticle}

NextConcurrent ==
    \E r \in Runs :
        \/ run_agent(r)
        \/ SearchAttemptOf(r, ConcurrentSearcherResponses)
        \/ ScrapeArticleOf(r, ConcurrentScraperResponses)
        \/ WriterRun(r)
        \/ WriterChunk(r)
        \/ WriterDone(r)
        \/ WriterRaises(r)

SpecConcurrent == Init /\ [][NextConcurrent]_vars

\* What the storage may hand back as a topic's entry of the search cache: no
\* entry, a value of another type, a dict that is no search result, and a
\* search result as the dict it was saved as.
StoredSearchResults ==
    {None,
     Str("text"),
     Dict(<<[key |-> "articles", value |-> Str("text")]>>),
     Dict(<<[key |-> "articles",
             value |-> List(<<Dict(<<[key |-> "url", value |-> Str("u1")]>>)>>)]>>)}

\* ... and as its entry of the scrape cache: no entry, a value of another
\* type, one article where the set belongs, and a set of articles as the
\* dict it was saved as.
StoredScrapedArticles ==
    LET article == [kind |-> "ScrapedArticle", title |-> "title", url |-> "u1",
                    content |-> "text"]
    IN {None,
        Str("text"),
        model_dump(article),
        Dict(<<[key |-> "u1", value |-> model_dump(article)]>>)}

\* ... and as its entry of the post cache: no entry, and a post.
StoredBlogPosts == {None, Str("a")}

\* The workflow constructed on a storage that holds a session: the caches are
\* what the storage hands back, and the last of the calls of run() follows.
InitStored ==
    /\ \E blog_post \in StoredBlogPosts, search_results \in StoredSearchResults,
          scraped_articles \in StoredScrapedArticles :
          session_state = [blog_posts |-> [t \in Topics |-> blog_post],
                           search_results |-> [t \in Topics |-> search_results],
                           scraped_articles |-> [t \in Topics |-> scraped_articles]]
    /\ writer_run_response = None
    /\ run = [r \in Runs |-> NoRun]
    /\ started = MaxRuns - 1

SpecStored == InitStored /\ [][Next]_vars

\* Every call of a collaborator returns or raises: a run that waits for the
\* searcher, the scraper or the writer gets the answer, run() goes on to the
\* writer once it has its input, and the writer's stream ends or raises.
Fairness ==
    \A r \in Sequential :
        /\ WF_vars(SearchAttempt(r))
        /\ WF_vars(ScrapeArticle(r))
        /\ WF_vars(WriterRun(r))
        /\ WF_vars(WriterDone(r) \/ WriterRaises(r))

SpecFair == SpecStored /\ Fairness

-----------------------------------------------------------------------------
(* Properties *)

CallsOf(r, agent) == {i \in 1..Len(run[r].calls) : run[r].calls[i].agent = agent}

\* the run has got past get_search_results
Searched(r) == run[r].pc \notin {"idle", "search"} /\ run[r].outcome # "cached"

\* the post cached for the run's topic when the run began
PostAtEntry(r) == run[r].entry_state.blog_posts[run[r].topic]

\* C1 as stated: a run with use_cached_report set that began with a post cached
\* for its topic has yielded that post and nothing else, has ended, and has
\* called no collaborator.
C1_AnyCachedPostShortCircuits ==
    \A r \in Runs :
        (run[r].pc # "idle" /\ run[r].use_cached_report /\ PostAtEntry(r) # None)
            => /\ run[r].pc = "done"
               /\ run[r].yielded = <<WorkflowCompletedEvent(PostAtEntry(r))>>
               /\ run[r].calls = <<>>

\* C1 as amended: a run with use_cached_report set that began with a non-empty
\* post cached for its topic has yielded that post and nothing else, has ended,
\* and has called no collaborator.
C1_NonEmptyCachedPostShortCircuits ==
    \A r \in Runs :
        (run[r].pc # "idle" /\ run[r].use_cached_report
            /\ PostAtEntry(r) # None /\ PostAtEntry(r).text # "")
            => /\ run[r].pc = "done"
               /\ run[r].yielded = <<WorkflowCompletedEvent(PostAtEntry(r))>>
               /\ run[r].calls = <<>>

C1_Witness ==
    \E r \in Runs :
        /\ run[r].pc = "done" /\ run[r].use_cached_report
        /\ PostAtEntry(r) = Str("a")
        /\ run[r].yielded = <<WorkflowCompletedEvent(Str("a"))>>

\* C2: once get_search_results has returned None or an empty result, the run
\* has ended, its only output is the message "Sorry, could not find any
\* articles on the topic: T", and it has called neither the scraper nor the
\* writer.
C2_NoArticlesEndsNotFound ==
    \A r \in Runs :
        (Searched(r) /\ (run[r].search_results = None
                            \/ Len(run[r].search_results.articles) = 0))
            => /\ run[r].pc = "done"
               /\ run[r].yielded = <<WorkflowCompletedEvent(Str(
                      "Sorry, could not find any articles on the topic: " \o run[r].topic))>>
               /\ CallsOf(r, "article_scraper") = {}
               /\ CallsOf(r, "writer") = {}

C2_Witness ==
    \E r \in Runs :
        /\ run[r].pc = "done" /\ run[r].topic = "Empty Topic"
        /\ run[r].search_results # None
        /\ Len(run[r].search_results.articles) = 0
        /\ run[r].yielded = <<WorkflowCompletedEvent(Str(
               "Sorry, could not find any articles on the topic: Empty Topic"))>>

\* C3: a run calls the searcher at most 3 times; while it is still searching
\* every call so far has failed; once a call has succeeded no further call is
\* made, the result is in the search cache under the topic and it is the
\* result get_search_results returned; only after 3 failed calls does
\* get_search_results return None.
C3_AtMostThreeAttemptsFirstSuccessWins ==
    \A r \in Runs :
        LET n == Cardinality(CallsOf(r, "searcher"))
            results == [i \in 1..Len(run[r].calls) |-> run[r].calls[i].result]
        IN /\ n <= 3
           /\ \A i \in CallsOf(r, "searcher") : i <= n
           /\ run[r].pc = "search" => \A i \in 1..n : results[i] = None
           /\ (Searched(r) /\ n > 0) =>
                 /\ \A i \in 1..(n - 1) : results[i] = None
                 /\ results[n] = run[r].search_results
                 /\ results[n] # None =>
                        session_state.search_results[run[r].topic] = results[n]
                 /\ results[n] = None => n = 3

C3_Witness ==
    \E r \in Runs :
        /\ Cardinality(CallsOf(r, "searcher")) = 2
        /\ Searched(r)
        /\ run[r].search_results # None
        /\ session_state.search_results[run[r].topic] = run[r].search_results
        /\ run[r].entry_state.search_results[run[r].topic] # run[r].search_results

ScraperCalls(r, url) == {i \in CallsOf(r, "article_scraper") : run[r].calls[i].arg = url}
Succeeded(r) ==
    {i \in CallsOf(r, "article_scraper") : run[r].calls[i].result.kind = "ScrapedArticle"}
Failed(r) == CallsOf(r, "article_scraper") \ Succeeded(r)

\* C4 as stated: in a run the scraper is called at most once for any URL,
\* whatever the first call for it gave.
C4_ScraperCalledOncePerUrl ==
    \A r \in Runs : \A url \in Urls : Cardinality(ScraperCalls(r, url)) <= 1

\* C5 as stated: a call of the scraper that fails in any way (it raises, or the
\* answer is None, has no content or has content of another type) does not
\* abort the run: the run is then scraping the next candidates, at the writer,
\* or ended by the writer.
C5_ScrapeFailureNeverAborts ==
    \A r \in Runs :
        Failed(r) # {} => run[r].outcome # "scrape_error"

\* the scraped set cached for the run's topic when the run began
ScrapedAtEntry(r) == run[r].entry_state.scraped_articles[run[r].topic]

\* the run has got into scrape_articles
Scraping(r) == Searched(r) /\ run[r].outcome # "not_found"

\* C6 as stated: with use_scrape_cache set and a cached set of M articles for
\* the topic, scrape_articles given N > M candidates returns the cached set
\* as it is and calls the scraper for none of them.
C6_ScrapeCacheHitReplacesScraping ==
    \A r \in Runs :
        (Scraping(r) /\ run[r].use_scrape_cache
            /\ ScrapedAtEntry(r).kind = "dict"
            /\ Len(ScrapedAtEntry(r).items) < Len(run[r].search_results.articles))
            => /\ run[r].pc # "scrape"
               /\ run[r].scraped_articles = ScrapedAtEntry(r)
               /\ CallsOf(r, "article_scraper") = {}

\* C7 as stated: what a run stores with add_search_results_to_cache,
\* add_scraped_articles_to_cache or add_blog_post_to_cache is what the
\* matching get_cached_* then returns for the topic.
C7_CacheRoundTrip ==
    \A r \in Runs :
        LET topic == run[r].topic
        IN /\ (Searched(r) /\ run[r].search_results # None) =>
                 get_cached_search_results(
                     add_search_results_to_cache(session_state, topic,
                                                 run[r].search_results), topic)
                     = Returned(run[r].search_results)
           /\ (Scraping(r) /\ run[r].pc # "scrape") =>
                 get_cached_scraped_articles(
                     add_scraped_articles_to_cache(session_state, topic,
                                                   run[r].scraped_articles), topic)
                     = Returned(run[r].scraped_articles)
           /\ run[r].outcome = "post" =>
                 get_cached_blog_post(
                     add_blog_post_to_cache(session_state, topic,
                                            writer_run_response), topic)
                     = writer_run_response

\* the text of the chunks a run has yielded, joined
RECURSIVE Joined(_)
Joined(events) ==
    IF events = <<>> THEN "" ELSE Head(events).content.text \o Joined(Tail(events))

\* C8: whatever the three flags of the run, once the writer's stream has ended
\* the post cache holds, under the run's topic, the text the writer streamed.
C8_PostSavedWhateverTheFlags ==
    \A r \in Runs :
        run[r].outcome = "post" =>
            session_state.blog_posts[run[r].topic] = Str(Joined(run[r].yielded))

C8_Witness ==
    \E r \in Runs :
        /\ run[r].outcome = "post"
        /\ ~run[r].use_cached_report /\ ~run[r].use_search_cache /\ run[r].use_scrape_cache
        /\ session_state.blog_posts[run[r].topic] = Str("a")
        /\ PostAtEntry(r) # Str("a")

\* C9 as stated: a run in which the scraper succeeded for some candidate URLs
\* (returning the article of the URL asked for) and failed for the others goes
\* on to the writer with a scraped set that holds exactly one entry per
\* success, gives the writer the topic and exactly those articles, and on
\* completion has the post cached under the topic.
C9_PartialScrapeReachesWriter ==
    \A r \in Runs :
        (/\ Succeeded(r) # {} /\ Failed(r) # {}
         /\ \A i \in Succeeded(r) : run[r].calls[i].result.url = run[r].calls[i].arg
         /\ \A i \in Succeeded(r), j \in Failed(r) : run[r].calls[i].arg # run[r].calls[j].arg)
        =>  /\ run[r].outcome # "scrape_error"
            /\ run[r].pc \in {"write", "stream", "done"} =>
                  /\ Len(run[r].scraped_articles.items) = Cardinality(Succeeded(r))
                  /\ \A i \in Succeeded(r) :
                        \E j \in 1..Len(run[r].scraped_articles.items) :
                            run[r].scraped_articles.items[j].value = run[r].calls[i].result
            /\ run[r].pc \in {"stream", "done"} =>
                  /\ run[r].writer_input.topic = run[r].topic
                  /\ Len(run[r].writer_input.articles) = Cardinality(Succeeded(r))
                  /\ \A i \in Succeeded(r) :
                        \E j \in 1..Len(run[r].writer_input.articles) :
                            run[r].writer_input.articles[j] = model_dump(run[r].calls[i].result)
            /\ run[r].pc = "done" =>
                  session_state.blog_posts[run[r].topic] = Str(Joined(run[r].yielded))

\* C10: a run that ended not-found has left the scrape cache and the post
\* cache as they were when it began, and the search cache too for every topic
\* but its own.
C10_NotFoundTouchesOnlyItsSearchEntry ==
    \A r \in Runs :
        run[r].outcome = "not_found" =>
            /\ session_state.scraped_articles = run[r].entry_state.scraped_articles
            /\ session_state.blog_posts = run[r].entry_state.blog_posts
            /\ \A t \in Topics \ {run[r].topic} :
                  session_state.search_results[t] = run[r].entry_state.search_results[t]

C10_Witness ==
    \E r \in Runs :
        /\ run[r].outcome = "not_found"
        /\ CallsOf(r, "searcher") # {}
        /\ session_state.search_results # run[r].entry_state.search_results
        /\ \E t \in Topics : run[r].entry_state.blog_posts[t] # None

\* the search result cached for the run's topic when the run began
SearchAtEntry(r) == run[r].entry_state.search_results[run[r].topic]

\* the run has got into get_search_results
Searching(r) == run[r].pc # "idle" /\ run[r].outcome # "cached"

\* C11: a run that got into get_search_results with use_search_cache set and
\* a valid search result cached for its topic has that result as the return
\* value of get_search_results, at once, and has not called the searcher.
C11_ValidSearchCacheHitCallsNoSearcher ==
    \A r \in Runs :
        (Searching(r) /\ run[r].use_search_cache
            /\ ~SearchResults_model_validate(SearchAtEntry(r)).raised)
            => /\ run[r].pc # "search"
               /\ run[r].search_results = SearchResults_model_validate(SearchAtEntry(r)).value
               /\ CallsOf(r, "searcher") = {}

C11_Witness ==
    \E r \in Runs :
        /\ Searching(r) /\ run[r].use_search_cache /\ ~run[r].use_cached_report
        /\ SearchAtEntry(r).kind = "SearchResults"
        /\ Len(SearchAtEntry(r).articles) = 0
        /\ run[r].search_results = SearchAtEntry(r)
        /\ run[r].outcome = "not_found"
        /\ run[r].calls = <<>>

\* every call of the searcher the run has made has failed
AllSearchesFailed(r) ==
    \A i \in CallsOf(r, "searcher") : run[r].calls[i].result = None

\* C12: a run whose searcher has failed 3 times, by raising or by an answer
\* of the wrong shape, has got None from get_search_results, has left the
\* search cache as it was when the run began, and has ended with the
\* not-found message as its only output, not with an error.
C12_ThreeFailuresEndNotFound ==
    \A r \in Runs :
        (Cardinality(CallsOf(r, "searcher")) = 3 /\ AllSearchesFailed(r))
            => /\ run[r].search_results = None
               /\ session_state.search_results = run[r].entry_state.search_results
               /\ run[r].pc = "done" /\ run[r].outcome = "not_found"
               /\ run[r].yielded = <<WorkflowCompletedEvent(Str(
                      "Sorry, could not find any articles on the topic: " \o run[r].topic))>>

C12_Witness ==
    \E r \in Runs :
        /\ Cardinality(CallsOf(r, "searcher")) = 3 /\ AllSearchesFailed(r)
        /\ run[r].outcome = "not_found"
        /\ run[r].use_search_cache
        /\ SearchAtEntry(r) = None
        /\ session_state.search_results[run[r].topic] = None

\* the calls of the searcher that were answered with a result of no candidates
EmptyResults(r) ==
    {i \in CallsOf(r, "searcher") :
        /\ run[r].calls[i].result.kind = "SearchResults"
        /\ Len(run[r].calls[i].result.articles) = 0}

\* C13: a call of the searcher answered with a well-typed result of zero
\* candidates is the run's last call of the searcher: get_search_results has
\* returned that result and the search cache holds it under the run's topic.
C13_EmptyResultIsSuccess ==
    \A r \in Runs : \A i \in EmptyResults(r) :
        /\ \A j \in CallsOf(r, "searcher") : j <= i
        /\ run[r].pc # "search"
        /\ run[r].search_results = run[r].calls[i].result
        /\ session_state.search_results[run[r].topic] = run[r].calls[i].result

C13_Witness ==
    \E r \in Runs :
        /\ EmptyResults(r) = {2}
        /\ run[r].calls[1].result = None
        /\ SearchAtEntry(r) = None
        /\ session_state.search_results[run[r].topic].kind = "SearchResults"
        /\ run[r].outcome = "not_found"

\* a value that is no set of scraped articles: no dict, or a dict with a
\* value that is no article
IsScrapedSet(v) ==
    /\ v.kind = "dict"
    /\ \A i \in 1..Len(v.items) : ~ScrapedArticle_model_validate(v.items[i].value).raised

\* C14 as stated: a run that reads, with the stage's flag set, a cached value
\* that is no search result (for the search stage) or no set of scraped
\* articles (for the scrape stage) goes on to the stage's collaborator as on
\* a miss, and does not fail on the cached value.
C14_BadCachedValueIsAMiss ==
    \A r \in Runs :
        /\ (Searching(r) /\ run[r].use_search_cache /\ SearchAtEntry(r) # None
                /\ SearchResults_model_validate(SearchAtEntry(r)).raised)
              => (run[r].pc = "search" \/ CallsOf(r, "searcher") # {})
        /\ (Scraping(r) /\ run[r].use_scrape_cache /\ ScrapedAtEntry(r) # None
                /\ ~IsScrapedSet(ScrapedAtEntry(r)))
              => /\ run[r].pc = "scrape" \/ CallsOf(r, "article_scraper") # {}
                 /\ run[r].outcome \notin {"writer_input_error", "set_item_error"}

\* get_search_results has returned without a call of the searcher
SearchHit(r) == run[r].pc # "search" /\ CallsOf(r, "searcher") = {}

\* scrape_articles has returned without a call of the scraper
ScrapeHit(r) == run[r].pc # "scrape" /\ CallsOf(r, "article_scraper") = {}

\* C15: each cache is read under its own flag and no other. A run returns the
\* cached post exactly when use_cached_report is set and a non-empty post is
\* cached; get_search_results returns without the searcher exactly when
\* use_search_cache is set and a valid result is cached; scrape_articles
\* returns without the scraper only when use_scrape_cache is set, and does so
\* when it is set and an empty set is cached; whatever the other two flags.
C15_EachCacheUnderItsOwnFlag ==
    \A r \in Runs :
        /\ run[r].pc # "idle" =>
              (run[r].outcome = "cached" <=> (run[r].use_cached_report /\ bool(PostAtEntry(r))))
        /\ Searching(r) =>
              (SearchHit(r) <=> (/\ run[r].use_search_cache
                                 /\ ~SearchResults_model_validate(SearchAtEntry(r)).raised))
        /\ Scraping(r) =>
              /\ ScrapeHit(r) => run[r].use_scrape_cache
              /\ (run[r].use_scrape_cache /\ ScrapedAtEntry(r) = EmptyDict) => ScrapeHit(r)

\* the search cache is passed over with its flag unset and the other two set
C15_Witness ==
    \E r \in Runs :
        /\ ~run[r].use_search_cache /\ run[r].use_scrape_cache /\ run[r].use_cached_report
        /\ SearchAtEntry(r).kind = "SearchResults"
        /\ ScrapedAtEntry(r) = EmptyDict
        /\ CallsOf(r, "searcher") # {}
        /\ ScrapeHit(r) /\ run[r].pc = "write"

\* scrape_articles has returned to run()
ScrapeReturned(r) ==
    /\ Scraping(r)
    /\ \/ run[r].pc \in {"write", "stream", "done"}
       \/ run[r].outcome \in {"write_error", "writer_input_error"}

\* C16: once scrape_articles has returned after calls of the scraper (not
\* from the cache), the scrape cache holds under the run's topic the very set
\* it returned; that set holds, under its url, every article the scraper
\* returned and nothing else, and is the empty dict when every call failed.
C16_ScrapedSetSavedAndReturned ==
    \A r \in Runs :
        (ScrapeReturned(r) /\ ~ScrapeHit(r)) =>
            LET returned == run[r].scraped_articles
            IN /\ session_state.scraped_articles[run[r].topic] = returned
               /\ returned.kind = "dict" =>
                     /\ dict_keys(returned) = {run[r].calls[i].result.url : i \in Succeeded(r)}
                     /\ \A k \in dict_keys(returned) :
                           \E i \in Succeeded(r) : dict_get(returned, k) = run[r].calls[i].result
                     /\ Succeeded(r) = {} => returned = EmptyDict

C16_Witness ==
    \E r \in Runs :
        /\ ScrapeReturned(r) /\ ~ScrapeHit(r)
        /\ Succeeded(r) = {}
        /\ Cardinality(Failed(r)) = 2
        /\ ScrapedAtEntry(r) = None
        /\ session_state.scraped_articles[run[r].topic] = EmptyDict

\* the stage of a collaborator
Stage(agent) ==
    CASE agent = "searcher" -> 1 [] agent = "article_scraper" -> 2 [] agent = "writer" -> 3

\* the calls of the scraper go through the candidates in the order of the list
InListOrder(r) ==
    \E f \in [CallsOf(r, "article_scraper") -> 1..Len(run[r].search_results.articles)] :
        /\ \A i, j \in DOMAIN f : i < j => f[i] < f[j]
        /\ \A i \in DOMAIN f : run[r].search_results.articles[f[i]].url = run[r].calls[i].arg

\* C17: in a run every call of the searcher comes before every call of the
\* scraper, and these before the call of the writer; the scraper is called
\* only once get_search_results has returned a result with candidates, and
\* its calls follow the order of the candidate list; the writer is called
\* only once the loop has passed the last candidate (or the scraped set came
\* from the cache); and the post cache is as it was when the run began until
\* the writer's stream has ended.
C17_SearchThenScrapeThenWrite ==
    \A r \in Runs :
        /\ \A i, j \in 1..Len(run[r].calls) :
              i < j => Stage(run[r].calls[i].agent) <= Stage(run[r].calls[j].agent)
        /\ (run[r].pc = "scrape" \/ CallsOf(r, "article_scraper") # {}) =>
              /\ run[r].search_results # None
              /\ Len(run[r].search_results.articles) > 0
              /\ InListOrder(r)
        /\ (run[r].pc = "write" \/ CallsOf(r, "writer") # {}) =>
              /\ run[r].search_results # None
              /\ ScrapeHit(r) \/ run[r].idx = Len(run[r].search_results.articles) + 1
        /\ (run[r].pc # "idle" /\ run[r].outcome # "post") =>
              session_state.blog_posts = run[r].entry_state.blog_posts

C17_Witness ==
    \E r \in Runs :
        /\ run[r].outcome = "post"
        /\ [i \in 1..Len(run[r].calls) |-> run[r].calls[i].agent]
              = <<"searcher", "searcher", "article_scraper", "article_scraper", "writer">>
        /\ run[r].calls[3].arg = "u2" /\ run[r].calls[4].arg = "u1"
        /\ session_state.blog_posts # run[r].entry_state.blog_posts

\* C18: a run calls the writer at most once; when the writer has raised, the
\* run has ended with that failure, the post cache is as it was when the run
\* began, and the search result and the scraped set the run saved before are
\* still in their caches under its topic.
C18_WriterFailurePropagates ==
    \A r \in Runs :
        /\ Cardinality(CallsOf(r, "writer")) <= 1
        /\ run[r].outcome = "write_error" =>
              /\ run[r].pc = "failed"
              /\ Cardinality(CallsOf(r, "writer")) = 1
              /\ session_state.blog_posts = run[r].entry_state.blog_posts
              /\ ~SearchHit(r) =>
                    session_state.search_results[run[r].topic] = run[r].search_results
              /\ ~ScrapeHit(r) =>
                    session_state.scraped_articles[run[r].topic] = run[r].scraped_articles

C18_Witness ==
    \E r \in Runs :
        /\ run[r].outcome = "write_error"
        /\ run[r].chunks = 1
        /\ ~SearchHit(r) /\ ~ScrapeHit(r)
        /\ SearchAtEntry(r) = None /\ ScrapedAtEntry(r) = None
        /\ Len(run[r].scraped_articles.items) = 1
        /\ session_state.blog_posts[run[r].topic] = None

\* the run has ended: with the cached post, the not-found message or the
\* post (done), or with an exception that left run() (failed)
Terminal(r) == run[r].pc \in {"done", "failed"}

\* C19: when every call of a collaborator returns or raises, a run that has
\* begun ends, with the cached post, the not-found message, the post or an
\* exception; and it never makes more than 3 calls of the searcher, more calls
\* of the scraper than one per candidate, or more than one call of the writer.
C19_EveryRunEnds ==
    /\ [](\A r \in Runs :
            /\ Cardinality(CallsOf(r, "searcher")) <= 3
            /\ CallsOf(r, "article_scraper") # {} => InListOrder(r)
            /\ Cardinality(CallsOf(r, "writer")) <= 1
            /\ Terminal(r) =>
                  run[r].outcome \in {"cached", "not_found", "post", "scrape_error",
                                      "set_item_error", "writer_input_error", "write_error"})
    /\ \A r \in Runs : Active(r) ~> Terminal(r)

C19_Witness ==
    \E r \in Runs :
        /\ Terminal(r) /\ run[r].outcome = "post"
        /\ Cardinality(CallsOf(r, "searcher")) = 3
        /\ Cardinality(CallsOf(r, "article_scraper")) = 2
        /\ Cardinality(CallsOf(r, "writer")) = 1

\* the caches with the entries of every topic but t removed
Masked(ss, t) ==
    [blog_posts |-> [u \in Topics |-> IF u = t THEN ss.blog_posts[u] ELSE None],
     search_results |-> [u \in Topics |-> IF u = t THEN ss.search_results[u] ELSE None],
     scraped_articles |-> [u \in Topics |-> IF u = t THEN ss.scraped_articles[u] ELSE None]]

\* what run() does next is the same with the other topics' entries removed
ReadsOwnEntriesOnly ==
    /\ \A topic \in Topics, usc, uscr, ucr \in BOOLEAN :
          LET l == [NoRun EXCEPT !.topic = topic, !.use_search_cache = usc,
                                 !.use_scrape_cache = uscr, !.use_cached_report = ucr]
          IN run_entry([ss |-> session_state, l |-> l]).l
                 = run_entry([ss |-> Masked(session_state, topic), l |-> l]).l
    /\ \A r \in Runs :
          /\ run[r].pc = "search" =>
                \A resp \in SearcherResponses :
                    search_response([ss |-> session_state, l |-> run[r]], resp).l
                        = search_response([ss |-> Masked(session_state, run[r].topic),
                                           l |-> run[r]], resp).l
          /\ run[r].pc = "scrape" =>
                \A resp \in ScraperResponses :
                    scrape_response([ss |-> session_state, l |-> run[r]], resp).l
                        = scrape_response([ss |-> Masked(session_state, run[r].topic),
                                           l |-> run[r]], resp).l

\* a step of run r
Stepped(r) == run'[r] # run[r]

\* the search result run r gets from the searcher in this step
SearcherSucceeds(r) ==
    /\ Len(run'[r].calls) = Len(run[r].calls) + 1
    /\ run'[r].calls[Len(run'[r].calls)].agent = "searcher"
    /\ run'[r].calls[Len(run'[r].calls)].result # None

\* an entry changes only in a step of a run on its topic, to the value that
\* run saves; and a run that saves leaves its value in the entry, whatever
\* was there
LastWriteWins ==
    /\ \A t \in Topics :
          /\ session_state'.search_results[t] # session_state.search_results[t] =>
                \E r \in Runs : /\ Stepped(r) /\ run'[r].topic = t /\ SearcherSucceeds(r)
                                /\ session_state'.search_results[t] = run'[r].search_results
          /\ session_state'.scraped_articles[t] # session_state.scraped_articles[t] =>
                \E r \in Runs : /\ Stepped(r) /\ run'[r].topic = t
                                /\ run[r].pc = "scrape" /\ run'[r].pc # "scrape"
                                /\ session_state'.scraped_articles[t] = run'[r].scraped_articles
          /\ session_state'.blog_posts[t] # session_state.blog_posts[t] =>
                \E r \in Runs : /\ Stepped(r) /\ run'[r].topic = t
                                /\ run[r].pc = "stream" /\ run'[r].outcome = "post"
                                /\ session_state'.blog_posts[t] = writer_run_response
    /\ \A r \in Runs :
          /\ SearcherSucceeds(r) =>
                session_state'.search_results[run[r].topic] = run'[r].search_results
          /\ (run[r].pc = "scrape" /\ run'[r].pc \in {"write", "failed"}
                  /\ run'[r].outcome # "scrape_error" /\ run'[r].outcome # "set_item_error") =>
                session_state'.scraped_articles[run[r].topic] = run'[r].scraped_articles
          /\ (run[r].pc = "stream" /\ run'[r].outcome = "post") =>
                session_state'.blog_posts[run[r].topic] = writer_run_response

\* C20: however the runs interleave, what a run does depends on the cache
\* entries of its own topic only, an entry changes only in a step of a run on
\* its topic, and each topic has one entry per stage, which holds the value of
\* the run that saved last.
C20_TopicsApartLastWriteWins ==
    []ReadsOwnEntriesOnly /\ [][LastWriteWins]_vars

\* two runs on one topic have each got a result from the searcher, and the
\* cache holds the one of the two that was saved last
C20_Witness ==
    \E r, q \in Runs :
        /\ r # q /\ run[r].topic = run[q].topic
        /\ CallsOf(r, "searcher") # {} /\ CallsOf(q, "searcher") # {}
        /\ run[r].search_results # None /\ run[q].search_results # None
        /\ run[r].search_results # run[q].search_results
        /\ session_state.search_results[run[q].topic] = run[q].search_results
        /\ Active(r) /\ Active(q)

\* every key of the dict d is the url of the article stored under it
KeyedByOwnUrl(d) ==
    \A i \in 1..Len(d.items) : d.items[i].key = d.items[i].value.url

\* C21: every entry of the set scrape_articles builds, and of the set it
\* saves in the scrape cache, is keyed by the url of the article the scraper
\* returned, not by the URL asked for; and a candidate is passed over exactly
\* when its URL is among the urls returned so far, so the scraper is called
\* for no URL that an earlier call of the run returned.
C21_KeyedByReturnedUrl ==
    \A r \in Runs :
        /\ run[r].scraped_articles.kind = "dict" => KeyedByOwnUrl(run[r].scraped_articles)
        /\ \A t \in Topics :
              session_state.scraped_articles[t].kind = "dict" =>
                  KeyedByOwnUrl(session_state.scraped_articles[t])
        /\ \A i \in Succeeded(r), j \in CallsOf(r, "article_scraper") :
              i < j => run[r].calls[j].arg # run[r].calls[i].result.url

\* asked for u1 the scraper returned the article of u2: the set's only key is
\* u2, no candidate's entry is under u1, and the candidate u2 was passed over
C21_Witness ==
    \E r \in Runs :
        /\ ScrapeReturned(r)
        /\ run[r].search_results.articles
              = <<[kind |-> "NewsArticle", url |-> "u1"], [kind |-> "NewsArticle", url |-> "u2"]>>
        /\ Cardinality(CallsOf(r, "article_scraper")) = 1
        /\ \A i \in CallsOf(r, "article_scraper") :
              run[r].calls[i].arg = "u1" /\ run[r].calls[i].result.kind = "ScrapedArticle"
                  /\ run[r].calls[i].result.url = "u2"
        /\ dict_keys(run[r].scraped_articles) = {"u2"}
        /\ session_state.scraped_articles[run[r].topic] = run[r].scraped_articles

====
